---- MODULE Spec2Model ----
(***************************************************************************)
(* The example gallery extension of altair (sphinxext/altairgallery.py):   *)
(* populate_examples, save_example_pngs and main, together with the files  *)
(* they read and write (example scripts, the _image_hashes.json table, the *)
(* png images) and the edits a developer makes to those files between two  *)
(* builds.                                                                 *)
(***************************************************************************)
EXTENDS Integers, Sequences, FiniteSets, TLC

\* ------------------------------------------------------------------ bounds
MaxName == 2
MaxCode == 2

Names == 1..MaxName          \* example names, ordered as their strings are
Codes == 1..MaxCode          \* the distinct texts an example script can hold

\* ------------------------------------------------------- values of the code
NoFile == 0                  \* the example script is not in the examples package
EmptyDigest == 0             \* the '' default of hashes.get(filename, '')

\* hashlib.md5(code.encode()).hexdigest(): a digest per text, never ''
MD5(code) == 100 + code

\* example['name'] + '.png'
Filename(name) == <<name, ".png">>

\* "gallery_{name}".format(**ex)
GalleryRef(ex) == <<"gallery_", ex.name>>

\* the category get_docstring_and_rest finds in a script (None when the
\* script names none); odd texts carry none, even texts carry "bar charts"
CategoryOf(code) == IF code % 2 = 1 THEN "None" ELSE "bar charts"

\* str.title()
Title(s) == CASE s = "general" -> "General"
              [] s = "bar charts" -> "Bar Charts"
              [] OTHER -> s

\* category = 'general' if category is None; category.title()
ResolveCategory(category) ==
    Title(IF category = "None" THEN "general" ELSE category)

EmptyTable == <<>>
MissingFile == [kind |-> "missing", table |-> EmptyTable]
CorruptFile == [kind |-> "corrupt", table |-> EmptyTable]
JsonFile(table) == [kind |-> "ok", table |-> table]

\* the table a reader sees in the file (nothing when there is no valid file)
TableOf(file) == IF file.kind = "ok" THEN file.table ELSE EmptyTable

\* hashes.get(filename, '')
Get(table, filename) ==
    IF filename \in DOMAIN table THEN table[filename] ELSE EmptyDigest

\* the assignment lost: the table stays as it was
Put_Nothing(table, filename, digest) == table

\* hashes[filename] = example_hash
Put(table, filename, digest) ==
    [f \in (DOMAIN table) \cup {filename} |->
        IF f = filename THEN digest ELSE table[f]]

VARIABLES
    srcFiles,        \* name -> text of the example script, NoFile if absent
    hashFile,        \* _image_hashes.json: [kind, table]
    imageDir,        \* the png files that exist in image_dir
    intact,          \* name -> a build cached it and nothing of it was touched since
    pc,              \* position of the running build
    caller,          \* "main" or "direct" (save_example_pngs called on its own)
    make_thumbnails, \* the argument of save_example_pngs
    examples,        \* the list of example dicts
    i,               \* index of the loops over examples
    hashes,          \* the in-memory table of save_example_pngs
    log,             \* what this build did so far
    pages            \* the per-example pages main wrote in this build

vars == <<srcFiles, hashFile, imageDir, intact, pc, caller, make_thumbnails,
          examples, i, hashes, log, pages>>

envVars == <<srcFiles, hashFile, imageDir>>

Present == {n \in Names : srcFiles[n] # NoFile}

NoLog == [cached |-> {}, saving |-> {}, execCount |-> [n \in Names |-> 0],
          saved |-> {}, skipped |-> {}, raised |-> {},
          thumbCount |-> [n \in Names |-> 0],
          reads |-> 0, writes |-> 0, loaded |-> "none", failedAt |-> "none",
          startTable |-> EmptyTable, startIntact |-> [n \in Names |-> FALSE],
          index |-> FALSE]

Ended == {"done", "failed"}

\* ---------------------------------------------------------- pure functions

\* the orders in which iter_examples can yield the members of S
Orders(S) ==
    {s \in [1..Cardinality(S) -> S] : \A a, b \in DOMAIN s : a # b => s[a] # s[b]}

RECURSIVE InsertByName(_, _)
InsertByName(ex, sorted) ==
    IF sorted = <<>> THEN <<ex>>
    ELSE IF ex.name < Head(sorted).name
         THEN <<ex>> \o sorted
         ELSE <<Head(sorted)>> \o InsertByName(ex, Tail(sorted))

\* sorted(iter_examples(), key=itemgetter('name'))
RECURSIVE SortByName(_)
SortByName(seq) ==
    IF seq = <<>> THEN <<>>
    ELSE InsertByName(seq[Len(seq)], SortByName(SubSeq(seq, 1, Len(seq) - 1)))

\* the dict iter_examples yields for a script
IterExample(name) == [name |-> name]

\* the body of the loop of populate_examples for one example
Populate(ex, kwds) ==
    [name |-> ex.name, code |-> srcFiles[ex.name],
     category |-> ResolveCategory(CategoryOf(srcFiles[ex.name]))] @@ kwds

\* populate_examples(**kwds) when iter_examples yields the scripts in `order`
populate_examples(order, kwds) ==
    LET sorted == SortByName([k \in DOMAIN order |-> IterExample(order[k])])
    IN [k \in DOMAIN sorted |-> Populate(sorted[k], kwds)]

\* hashes_match
HashesMatch(table, ex) == Get(table, Filename(ex.name)) = MD5(ex.code)

\* the test always true: the cache is never used
MustGenerate_Always(table, ex, dir) == TRUE

\* the test without its os.path.exists half
MustGenerate_NoFileCheck(table, ex, dir) == ~HashesMatch(table, ex)

\* not hashes_match or not os.path.exists(image_file)
MustGenerate(table, ex, dir) ==
    ~HashesMatch(table, ex) \/ Filename(ex.name) \notin dir

\* the (prev, this, next) triple of prev_this_next at position k;
\* the sentinel None is the empty dict here (both are falsy)
PrevThisNext(seq, k) ==
    [prev |-> IF k > 1 THEN seq[k - 1] ELSE <<>>,
     this |-> seq[k],
     next |-> IF k < Len(seq) THEN seq[k + 1] ELSE <<>>]

\* truth value of `if prev_ex:` / `if next_ex:`
Truthy(ex) == DOMAIN ex # {}

\* the two neighbours taken for each other
SetRefs_Swapped(t) ==
    LET withPrev == IF Truthy(t.next)
                    THEN [prev_ref |-> GalleryRef(t.next)] @@ t.this
                    ELSE t.this
    IN IF Truthy(t.prev)
       THEN [next_ref |-> GalleryRef(t.prev)] @@ withPrev
       ELSE withPrev

\* example['prev_ref'] = ...; example['next_ref'] = ... of main
SetRefs(t) ==
    LET withPrev == IF Truthy(t.prev)
                    THEN [prev_ref |-> GalleryRef(t.prev)] @@ t.this
                    ELSE t.this
    IN IF Truthy(t.next)
       THEN [next_ref |-> GalleryRef(t.next)] @@ withPrev
       ELSE withPrev

\* ------------------------------------------------------------------- Init
Init ==
    /\ srcFiles \in [Names -> Codes \cup {NoFile}]
    /\ hashFile = MissingFile
    /\ imageDir = {}
    /\ intact = [n \in Names |-> FALSE]
    /\ pc = "idle"
    /\ caller = "main"
    /\ make_thumbnails = TRUE
    /\ examples = <<>>
    /\ i = 1
    /\ hashes = EmptyTable
    /\ log = NoLog
    /\ pages = {}

ResetRun ==
    /\ pc' = "idle"
    /\ caller' = "main"
    /\ make_thumbnails' = TRUE
    /\ examples' = <<>>
    /\ i' = 1
    /\ hashes' = EmptyTable
    /\ log' = NoLog
    /\ pages' = {}

\* the build's process has ended, by returning or by an uncaught exception
Exit ==
    /\ pc \in Ended
    /\ ResetRun
    /\ UNCHANGED <<envVars, intact>>

\* ------------------------------------------- the developer, between builds
EditExample ==
    \E n \in Names, c \in Codes :
        /\ pc = "idle"
        /\ srcFiles[n] # c
        /\ srcFiles' = [srcFiles EXCEPT ![n] = c]
        /\ intact' = [intact EXCEPT ![n] = FALSE]
        /\ UNCHANGED <<hashFile, imageDir>>
        /\ ResetRun

RemoveExample ==
    \E n \in Names :
        /\ pc = "idle"
        /\ srcFiles[n] # NoFile
        /\ srcFiles' = [srcFiles EXCEPT ![n] = NoFile]
        /\ intact' = [intact EXCEPT ![n] = FALSE]
        /\ UNCHANGED <<hashFile, imageDir>>
        /\ ResetRun

DeleteImage ==
    \E n \in Names :
        /\ pc = "idle"
        /\ Filename(n) \in imageDir
        /\ imageDir' = imageDir \ {Filename(n)}
        /\ intact' = [intact EXCEPT ![n] = FALSE]
        /\ UNCHANGED <<srcFiles, hashFile>>
        /\ ResetRun

DeleteHashFile ==
    /\ pc = "idle"
    /\ hashFile.kind # "missing"
    /\ hashFile' = MissingFile
    /\ intact' = [n \in Names |-> FALSE]
    /\ UNCHANGED <<srcFiles, imageDir>>
    /\ ResetRun

CorruptHashFile ==
    /\ pc = "idle"
    /\ hashFile.kind = "ok"
    /\ hashFile' = CorruptFile
    /\ intact' = [n \in Names |-> FALSE]
    /\ UNCHANGED <<srcFiles, imageDir>>
    /\ ResetRun

\* ------------------------------------------------------------------- main
\* main: populate_examples
MainPopulate ==
    \E order \in Orders(Present) :
        /\ pc = "idle"
        /\ examples' = populate_examples(order, [gallery_ref |-> "example-gallery",
                                                 code_below |-> TRUE])
        /\ pc' = "index"
        /\ caller' = "main"
        /\ make_thumbnails' = TRUE
        /\ i' = 1
        /\ hashes' = EmptyTable
        /\ log' = NoLog
        /\ pages' = {}
        /\ UNCHANGED <<envVars, intact>>

\* main: get_docstring_and_rest raises inside populate_examples
MainPopulateFail ==
    /\ pc = "idle"
    /\ Present # {}
    /\ pc' = "failed"
    /\ caller' = "main"
    /\ make_thumbnails' = TRUE
    /\ examples' = <<>>
    /\ i' = 1
    /\ hashes' = EmptyTable
    /\ log' = [NoLog EXCEPT !.failedAt = "populate"]
    /\ pages' = {}
    /\ UNCHANGED <<envVars, intact>>

\* main: write index.rst, then call save_example_pngs(examples, image_dir)
MainWriteIndex ==
    /\ pc = "index"
    /\ log' = [log EXCEPT !.index = TRUE]
    /\ pc' = "load"
    /\ UNCHANGED <<envVars, intact, caller, make_thumbnails, examples, i,
                   hashes, pages>>

\* save_example_pngs(examples, image_dir, make_thumbnails) called on its own
DirectCall ==
    \E order \in Orders(Present), mk \in BOOLEAN :
        /\ pc = "idle"
        /\ examples' = populate_examples(order, [code_below |-> FALSE])
        /\ pc' = "load"
        /\ caller' = "direct"
        /\ make_thumbnails' = mk
        /\ i' = 1
        /\ hashes' = EmptyTable
        /\ log' = NoLog
        /\ pages' = {}
        /\ UNCHANGED <<envVars, intact>>

\* ------------------------------------------------------ save_example_pngs
\* the os.path.exists test lost: a missing file fails to open
CanLoad_OnlyExisting(file) == file.kind = "ok"

\* json.load(f) succeeds or the file is not there
CanLoad(file) == file.kind # "corrupt"

\* hashes = json.load(f) if os.path.exists(hash_file) else {}
LoadTable(file) == IF file.kind = "ok" THEN file.table ELSE EmptyTable

\* open(hash_file) happens only when the file exists
ReadsOf(file) == IF file.kind = "missing" THEN 0 ELSE 1

\* print('-> using cached ...')
PrintCached(l, ex) == [l EXCEPT !.cached = @ \cup {ex.name}]

\* print('-> saving ...')
PrintSaving(l, ex) == [l EXCEPT !.saving = @ \cup {ex.name}]

\* exec(example['code'], _globals) is entered
EnterExec(l, ex) == [l EXCEPT !.execCount[ex.name] = @ + 1]

\* with open(hash_file, 'w') as f: json.dump(hashes, f)
Dump(table) == JsonFile(table)

\* the prelude of save_example_pngs: the hash file is read, or found missing
LoadHashes ==
    /\ pc = "load"
    /\ CanLoad(hashFile)
    /\ hashes' = LoadTable(hashFile)
    /\ log' = [log EXCEPT !.reads = @ + ReadsOf(hashFile),
                          !.loaded = hashFile.kind,
                          !.startTable = LoadTable(hashFile),
                          !.startIntact = intact]
    /\ i' = 1
    /\ pc' = "loop"
    /\ UNCHANGED <<envVars, intact, caller, make_thumbnails, examples, pages>>

\* json.load raises on a file that is not JSON
LoadHashesFail ==
    /\ pc = "load"
    /\ ~CanLoad(hashFile)
    /\ log' = [log EXCEPT !.reads = @ + ReadsOf(hashFile),
                          !.loaded = hashFile.kind,
                          !.failedAt = "load"]
    /\ pc' = "failed"
    /\ UNCHANGED <<envVars, intact, caller, make_thumbnails, examples, i,
                   hashes, pages>>

\* the dump moved out of the if: a cache hit rewrites the file too
ExampleCached_Dumps ==
    /\ pc = "loop"
    /\ i <= Len(examples)
    /\ ~MustGenerate(hashes, examples[i], imageDir)
    /\ log' = [PrintCached(log, examples[i])
                  EXCEPT !.skipped = @ \cup {examples[i].name}, !.writes = @ + 1]
    /\ hashFile' = Dump(hashes)
    /\ intact' = [intact EXCEPT ![examples[i].name] = TRUE]
    /\ pc' = "thumb"
    /\ UNCHANGED <<srcFiles, imageDir, caller, make_thumbnails, examples, i,
                   hashes, pages>>

\* one pass of the loop whose test (line 110) is false
ExampleCached ==
    /\ pc = "loop"
    /\ i <= Len(examples)
    /\ ~MustGenerate(hashes, examples[i], imageDir)
    /\ log' = [PrintCached(log, examples[i]) EXCEPT !.skipped = @ \cup {examples[i].name}]
    /\ intact' = [intact EXCEPT ![examples[i].name] = TRUE]
    /\ pc' = "thumb"
    /\ UNCHANGED <<envVars, caller, make_thumbnails, examples, i, hashes, pages>>

\* one pass whose test is true and whose exec and savechart return
ExampleGenerate ==
    /\ pc = "loop"
    /\ i <= Len(examples)
    /\ MustGenerate(hashes, examples[i], imageDir)
    /\ LET ex == examples[i]
           newHashes == Put(hashes, Filename(ex.name), MD5(ex.code))
       IN /\ imageDir' = imageDir \cup {Filename(ex.name)}
          /\ hashes' = newHashes
          /\ hashFile' = Dump(newHashes)
          /\ log' = [EnterExec(PrintSaving(PrintCached(log, ex), ex), ex)
                        EXCEPT !.saved = @ \cup {ex.name}, !.writes = @ + 1]
          /\ intact' = [intact EXCEPT ![ex.name] = TRUE]
    /\ pc' = "thumb"
    /\ UNCHANGED <<srcFiles, caller, make_thumbnails, examples, i, pages>>

\* the exception swallowed: the loop goes on with the thumbnail
ExampleGenerateFail_Swallowed ==
    /\ pc = "loop"
    /\ i <= Len(examples)
    /\ MustGenerate(hashes, examples[i], imageDir)
    /\ LET ex == examples[i]
       IN log' = [EnterExec(PrintSaving(PrintCached(log, ex), ex), ex)
                     EXCEPT !.raised = @ \cup {ex.name}, !.failedAt = "exec"]
    /\ pc' = "thumb"
    /\ UNCHANGED <<envVars, intact, caller, make_thumbnails, examples, i,
                   hashes, pages>>

\* the table updated and dumped before exec and savechart are called
ExampleGenerateFail_HashFirst ==
    /\ pc = "loop"
    /\ i <= Len(examples)
    /\ MustGenerate(hashes, examples[i], imageDir)
    /\ LET ex == examples[i]
           newHashes == Put(hashes, Filename(ex.name), MD5(ex.code))
       IN /\ hashes' = newHashes
          /\ hashFile' = Dump(newHashes)
          /\ log' = [EnterExec(PrintSaving(PrintCached(log, ex), ex), ex)
                        EXCEPT !.raised = @ \cup {ex.name}, !.failedAt = "exec",
                               !.writes = @ + 1]
    /\ pc' = "failed"
    /\ UNCHANGED <<srcFiles, imageDir, intact, caller, make_thumbnails, examples,
                   i, pages>>

\* one pass whose test is true and whose exec or savechart raises
ExampleGenerateFail ==
    /\ pc = "loop"
    /\ i <= Len(examples)
    /\ MustGenerate(hashes, examples[i], imageDir)
    /\ LET ex == examples[i]
       IN log' = [EnterExec(PrintSaving(PrintCached(log, ex), ex), ex)
                     EXCEPT !.raised = @ \cup {ex.name}, !.failedAt = "exec"]
    /\ pc' = "failed"
    /\ UNCHANGED <<envVars, intact, caller, make_thumbnails, examples, i,
                   hashes, pages>>

\* the thumbnail made inside the if: only for a regenerated image
CreateThumbnail_OnlyWhenSaved ==
    /\ pc = "thumb"
    /\ make_thumbnails
    /\ log' = IF examples[i].name \in log.saved
              THEN [log EXCEPT !.thumbCount[examples[i].name] = @ + 1]
              ELSE log
    /\ i' = i + 1
    /\ pc' = "loop"
    /\ UNCHANGED <<envVars, intact, caller, make_thumbnails, examples, hashes, pages>>

\* if make_thumbnails: create_thumbnail(image_file, thumb_file, **params)
CreateThumbnail ==
    /\ pc = "thumb"
    /\ make_thumbnails
    /\ log' = [log EXCEPT !.thumbCount[examples[i].name] = @ + 1]
    /\ i' = i + 1
    /\ pc' = "loop"
    /\ UNCHANGED <<envVars, intact, caller, make_thumbnails, examples, hashes, pages>>

SkipThumbnail ==
    /\ pc = "thumb"
    /\ ~make_thumbnails
    /\ i' = i + 1
    /\ pc' = "loop"
    /\ UNCHANGED <<envVars, intact, caller, make_thumbnails, examples, hashes,
                   log, pages>>

\* the write after the loop; save_example_pngs returns
FinalWrite ==
    /\ pc = "loop"
    /\ i > Len(examples)
    /\ hashFile' = Dump(hashes)
    /\ log' = [log EXCEPT !.writes = @ + 1]
    /\ i' = 1
    /\ pc' = IF caller = "main" /\ Len(examples) > 0 THEN "pages" ELSE "done"
    /\ UNCHANGED <<srcFiles, imageDir, intact, caller, make_thumbnails, examples,
                   hashes, pages>>

\* main: one pass of the loop over prev_this_next(examples)
WritePage ==
    /\ pc = "pages"
    /\ i <= Len(examples)
    /\ LET page == SetRefs(PrevThisNext(examples, i))
       IN /\ examples' = [examples EXCEPT ![i] = page]
          /\ pages' = pages \cup {page}
    /\ i' = i + 1
    /\ pc' = IF i = Len(examples) THEN "done" ELSE "pages"
    /\ UNCHANGED <<envVars, intact, caller, make_thumbnails, hashes, log>>

Next ==
    \/ Exit
    \/ EditExample
    \/ RemoveExample
    \/ DeleteImage
    \/ DeleteHashFile
    \/ CorruptHashFile
    \/ MainPopulate
    \/ MainPopulateFail
    \/ MainWriteIndex
    \/ DirectCall
    \/ LoadHashes
    \/ LoadHashesFail
    \/ ExampleCached
    \/ ExampleGenerate
    \/ ExampleGenerateFail
    \/ CreateThumbnail
    \/ SkipThumbnail
    \/ FinalWrite
    \/ WritePage

Spec == Init /\ [][Next]_vars
\* ------------------------------------------------------------ properties
NameAt(k) == examples[k].name

FileOf(k) == Filename(examples[k].name)

DigestAt(k) == MD5(examples[k].code)

\* the positions the loop of save_example_pngs has entered so far
Reached ==
    CASE pc = "loop" -> 1..(i - 1)
      [] pc = "thumb" -> 1..i
      [] pc = "failed" /\ log.failedAt = "exec" -> 1..i
      [] pc \in {"pages", "done"} -> 1..Len(examples)
      [] OTHER -> {}

\* the positions whose pass of the loop has ended
Finished ==
    CASE pc \in {"loop", "thumb"} -> 1..(i - 1)
      [] pc = "failed" /\ log.failedAt = "exec" -> 1..(i - 1)
      [] pc \in {"pages", "done"} -> 1..Len(examples)
      [] OTHER -> {}

\* the positions whose code ran and whose image was saved
Regenerated == {k \in Reached : NameAt(k) \in log.saved}

StoredNow(f) == Get(TableOf(hashFile), f)

StoredAtStart(f) == Get(log.startTable, f)

\* C1: an example that an earlier run cached and whose script, image and
\* hash-table entry were left alone since is not executed and not saved again
\* by the next run: the run skips it.
C1_UnchangedIsSkipped ==
    /\ \A n \in Names :
          log.startIntact[n] =>
              /\ log.execCount[n] = 0
              /\ n \notin log.saved
              /\ n \notin log.saving
    /\ \A k \in Reached : log.startIntact[NameAt(k)] => NameAt(k) \in log.skipped

C1_Witness ==
    /\ pc = "done"
    /\ \E k \in Reached : log.startIntact[NameAt(k)] /\ NameAt(k) \in log.skipped

\* C2: every example reached with a stored digest different from the digest
\* of its code (or with none stored) has its code executed once; unless that
\* raised, its image is saved and its entry equals the new digest in the
\* in-memory table and in the JSON file.
C2_MismatchRegenerates ==
    \A k \in Reached :
        StoredAtStart(FileOf(k)) # DigestAt(k) =>
            /\ log.execCount[NameAt(k)] = 1
            /\ NameAt(k) \in log.saving
            /\ \/ pc = "failed" /\ k = i /\ NameAt(k) \in log.raised
               \/ /\ NameAt(k) \in log.saved
                  /\ FileOf(k) \in imageDir
                  /\ Get(hashes, FileOf(k)) = DigestAt(k)
                  /\ hashFile.kind = "ok"
                  /\ StoredNow(FileOf(k)) = DigestAt(k)

C2_Witness ==
    \E k \in Regenerated :
        /\ StoredAtStart(FileOf(k)) \notin {EmptyDigest, DigestAt(k)}
        /\ StoredNow(FileOf(k)) = DigestAt(k)
        /\ Get(hashes, FileOf(k)) = DigestAt(k)

\* C3: an example is skipped only if its stored digest equals the digest of
\* its code and its image file exists; one whose digest matches but whose image
\* is missing is executed.
C3_SkipNeedsBoth ==
    \A k \in Reached :
        /\ NameAt(k) \in log.skipped =>
              /\ StoredAtStart(FileOf(k)) = DigestAt(k)
              /\ FileOf(k) \in imageDir
              /\ log.execCount[NameAt(k)] = 0
        /\ NameAt(k) \notin log.skipped => log.execCount[NameAt(k)] = 1

C3_Witness ==
    \E k \in Regenerated : StoredAtStart(FileOf(k)) = DigestAt(k)

\* C4 as stated: the file, when there is one, is read once at the start, and
\* it is rewritten after every example of the loop, regenerated or cached, and
\* once more at the end.
C4_RewrittenAfterEveryExample ==
    log.loaded # "none" /\ log.failedAt = "none" =>
        /\ log.reads <= 1
        /\ log.loaded = "ok" => log.reads = 1
        /\ log.writes = Cardinality(Reached)
                        + (IF pc \in {"pages", "done"} THEN 1 ELSE 0)

\* C4 amended: the file is read at most once, at the start, and exactly when
\* it exists; it is rewritten after each example whose image was regenerated,
\* not after a cache hit, and once more after the last example; after each
\* write it holds the in-memory table.
C4_RewrittenAfterRegeneration ==
    /\ log.reads = (IF log.loaded \in {"ok", "corrupt"} THEN 1 ELSE 0)
    /\ log.writes = Cardinality(log.saved)
                    + (IF pc \in {"pages", "done"} THEN 1 ELSE 0)
    /\ log.writes > 0 => hashFile = Dump(hashes)

C4_Witness ==
    /\ pc = "done"
    /\ log.reads = 1
    /\ log.skipped # {}
    /\ log.saved # {}
    /\ log.writes = Cardinality(log.saved) + 1

\* C5 as stated: with the file missing or corrupt the run does not fail on it
\* and goes on with an empty table, regenerating every example.
C5_MissingOrCorruptIsEmpty ==
    log.loaded \in {"missing", "corrupt"} =>
        /\ log.failedAt # "load"
        /\ log.skipped = {}

\* C5 amended: with the file missing the run does not fail on it, goes on
\* with an empty table and executes the code of every example it reaches; with
\* the file corrupt json.load raises and the run ends before any example.
C5_MissingIsEmptyCorruptFails ==
    /\ log.loaded = "missing" =>
          /\ log.failedAt # "load"
          /\ log.startTable = EmptyTable
          /\ log.skipped = {}
          /\ \A k \in Reached : log.execCount[NameAt(k)] = 1
    /\ log.loaded = "corrupt" =>
          /\ pc = "failed"
          /\ log.failedAt = "load"
          /\ Reached = {}
          /\ log.cached = {}
          /\ \A n \in Names : log.execCount[n] = 0
          /\ log.writes = 0
          /\ hashFile = CorruptFile

C5_Witness ==
    /\ log.loaded = "missing"
    /\ pc = "done"
    /\ Len(examples) >= 2
    /\ imageDir # {}
    /\ \A k \in 1..Len(examples) : NameAt(k) \in log.saved

\* C6: with make_thumbnails every example whose pass ended has had its
\* thumbnail created exactly once, cached or regenerated, and a thumbnail is
\* created only once the image was regenerated or found valid; without
\* make_thumbnails no thumbnail is created.
C6_ThumbnailOncePerExample ==
    /\ \A k \in Finished :
          log.thumbCount[NameAt(k)] = (IF make_thumbnails THEN 1 ELSE 0)
    /\ \A n \in Names :
          log.thumbCount[n] > 0 =>
              /\ make_thumbnails
              /\ n \in log.saved \cup log.skipped
              /\ Filename(n) \in imageDir
              /\ \E k \in Finished : NameAt(k) = n

C6_Witness ==
    /\ pc = "done"
    /\ make_thumbnails
    /\ log.skipped # {}
    /\ log.saved # {}
    /\ \A k \in 1..Len(examples) : log.thumbCount[NameAt(k)] = 1

\* C7: "using cached" is logged for exactly the examples that are skipped,
\* and never for one that is regenerated.
C7_CachedLoggedIffSkipped ==
    /\ log.cached = log.skipped
    /\ log.cached \cap log.saving = {}

C9_FailureEndsBuild ==
    \A n \in log.raised :
        /\ pc = "failed"
        /\ log.failedAt = "exec"
        /\ i <= Len(examples)
        /\ NameAt(i) = n
        /\ log.execCount[n] = 1
        /\ n \notin log.saved
        /\ log.thumbCount[n] = 0
        /\ pages = {}
        /\ \A k \in (i + 1)..Len(examples) :
              /\ log.execCount[NameAt(k)] = 0
              /\ log.thumbCount[NameAt(k)] = 0
              /\ NameAt(k) \notin log.cached \cup log.saving \cup log.skipped

C9_Witness ==
    /\ pc = "failed"
    /\ log.failedAt = "exec"
    /\ caller = "main"
    /\ log.index
    /\ i < Len(examples)

\* C10: the JSON file records a new digest only for an image whose save
\* completed. When exec or savechart raises at position k the file holds the
\* digests of the examples regenerated before k, the entry of k and every
\* other entry are as they were at the start, and the test of the loop on the
\* files left behind says k must be generated again.
C10_NoDigestWithoutSave ==
    log.loaded # "none" =>
        /\ \A n \in Names :
              StoredNow(Filename(n)) =
                  (IF n \in log.saved THEN MD5(srcFiles[n])
                   ELSE StoredAtStart(Filename(n)))
        /\ log.failedAt = "exec" =>
              /\ log.saved = {NameAt(k) : k \in 1..(i - 1)} \ log.skipped
              /\ StoredNow(FileOf(i)) = StoredAtStart(FileOf(i))
              /\ MustGenerate(TableOf(hashFile), examples[i], imageDir)

C10_Witness ==
    /\ pc = "failed"
    /\ log.failedAt = "exec"
    /\ log.saved # {}
    /\ StoredAtStart(FileOf(i)) # EmptyDigest
====
